---- MODULE Spec2Model ----
(***************************************************************************)
(* Model of scripts/safe-feature.py: the `verify` command (config key      *)
(* extraction, source scan, reconciliation) and the `audit` command (diff  *)
(* signature heuristic) of SafeFeatureCLI, with main's exit-code mapping.  *)
(*                                                                         *)
(* Texts are sequences of one-character strings.                           *)
(***************************************************************************)
EXTENDS Integers, Sequences, FiniteSets

VARIABLES
    command,          \* args.command
    pc,               \* position inside the running command
    success,          \* value returned by verify_cmd / audit_cmd
    run,              \* how many times the command has been started
    config_exists,    \* os.path.exists(config_path)
    config_readable,  \* open/read of the config does not raise
    content,          \* text of the config file
    tree,             \* files of the source tree in os.walk order
    config_flags,     \* list returned by re.findall on the config
    used_flags,       \* set of flags found in the scanned files
    file_count,       \* number of files counted by the scan
    idx,              \* next entry of tree the walk visits
    opened,           \* indices of the files the scan has read
    missing,          \* missing entries, in the order printed
    unused,           \* unused entries, in the order printed
    prev_missing,     \* what the previous run printed as missing
    prev_unused,      \* what the previous run printed as unused
    diff_ok,          \* the git diff invocation succeeds
    diff,             \* text returned by git diff
    lines,            \* diff.split('\n')
    i,                \* loop index of the audit scan (0-based)
    warnings,         \* audit's warning counter
    warned,           \* loop indices for which a warning was printed
    summary           \* audit's closing log line

vars == <<command, pc, success, run, config_exists, config_readable, content,
          tree, config_flags, used_flags, file_count, idx, opened, missing,
          unused, prev_missing, prev_unused, diff_ok, diff, lines, i,
          warnings, warned, summary>>

verifyVars == <<config_exists, config_readable, content, tree, config_flags,
                used_flags, file_count, idx, opened, missing, unused,
                prev_missing, prev_unused>>

auditVars == <<diff_ok, diff, lines, i, warnings, warned, summary>>

(***************************************************************************)
(* Bounds                                                                  *)
(***************************************************************************)
MaxConfigLines == 2
MaxFiles == 2
MaxRuns == 2
MaxConfigLen == 4
MaxDiffLines == 4

(***************************************************************************)
(* Generic helpers                                                         *)
(***************************************************************************)
NL == "\n"

Range(s) == {s[k] : k \in 1..Len(s)}

InSeq(x, s) == \E k \in 1..Len(s) : s[k] = x

NoDup(s) == \A j, k \in 1..Len(s) : s[j] = s[k] => j = k

SeqsUpTo(S, n) == UNION {[1..k -> S] : k \in 0..n}

RECURSIVE Join(_)
\* Every line followed by a newline.
Join(ls) ==
    IF ls = <<>> THEN <<>>
    ELSE Head(ls) \o <<NL>> \o Join(Tail(ls))

\* The literal lit occurs in s at position p.
StartsAt(s, p, lit) ==
    /\ p >= 1 /\ p + Len(lit) - 1 <= Len(s)
    /\ SubSeq(s, p, p + Len(lit) - 1) = lit

\* str.find: 0-based index of the first c at or after 0-based position k, or -1.
RECURSIVE FindFrom(_, _, _)
FindFrom(s, c, k) ==
    IF k >= Len(s) THEN -1
    ELSE IF s[k + 1] = c THEN k
    ELSE FindFrom(s, c, k + 1)

Find(s, c) == FindFrom(s, c, 0)

RECURSIVE Split(_)
\* str.split('\n')
Split(s) ==
    LET k == Find(s, NL)
    IN  IF k = -1 THEN <<s>>
        ELSE <<SubSeq(s, 1, k)>> \o Split(SubSeq(s, k + 2, Len(s)))

\* All orders in which a set can be iterated.
Orders(S) ==
    {p \in [1..Cardinality(S) -> S] : \A j, k \in 1..Cardinality(S) : p[j] = p[k] => j = k}

(***************************************************************************)
(* verify: config key extraction                                           *)
(***************************************************************************)
\* The characters of the class [a-zA-Z0-9_-] that the model's texts use.
NameChar == {"a", "b", "c", "_", "-", "1"}

RECURSIVE NameRunEnd(_, _)
\* First position at or after p that holds no character of [a-zA-Z0-9_-].
NameRunEnd(s, p) ==
    IF p > Len(s) \/ s[p] \notin NameChar THEN p
    ELSE NameRunEnd(s, p + 1)

\* '^' under re.MULTILINE: the start of the text or just after a newline.
AtLineStart(s, p) == p = 1 \/ s[p - 1] = NL

\* Mutation: the pattern without its '^' anchor.
ConfigMatchesAtUnanchored(s, p) ==
    LET q == NameRunEnd(s, p)
    IN  q > p /\ q <= Len(s) /\ s[q] = ":"

\* r'^([a-zA-Z0-9_-]+):' matches at position p.
ConfigMatchesAt(s, p) ==
    /\ AtLineStart(s, p)
    /\ LET q == NameRunEnd(s, p)
       IN  q > p /\ q <= Len(s) /\ s[q] = ":"

RECURSIVE FindallFrom(_, _)
\* re.findall: leftmost matches, scanning on after each match's end.
FindallFrom(s, p) ==
    IF p > Len(s) THEN <<>>
    ELSE IF ConfigMatchesAt(s, p)
         THEN LET q == NameRunEnd(s, p)
              IN  <<SubSeq(s, p, q - 1)>> \o FindallFrom(s, q + 1)
         ELSE FindallFrom(s, p + 1)

ConfigFindall(s) == FindallFrom(s, 1)

\* Mutation: a read failure is not treated as fatal.
LoadFailsOnlyWhenAbsent(exists, readable) == ~exists

\* The two early returns of step 1.
LoadFails(exists, readable) == ~exists \/ ~readable

(***************************************************************************)
(* verify: source scan                                                     *)
(***************************************************************************)
supported_exts == {".js", ".ts", ".jsx", ".tsx", ".py", ".go", ".rs"}

ExcludedDirs == {"node_modules", "dist", "build", "__pycache__"}

\* Directory names of the model that start with '.'.
DotDirs == {".git"}

\* A directory the walk does not descend into ("" is the scanned root).
Pruned(d) == d \in DotDirs \/ d \in ExcludedDirs

Included(f) == ~Pruned(f.dir) /\ f.ext \in supported_exts

L_isEnabled == <<"i", "s", "E", "n", "a", "b", "l", "e", "d", "(">>

L_is_enabled == <<"i", "s", "_", "e", "n", "a", "b", "l", "e", "d", "(">>

L_check == <<"c", "h", "e", "c", "k", "(">>

\* The three alternatives of flag_regex, in order.
CallNames == <<L_isEnabled, L_is_enabled, L_check>>

Quotes == {"'", "\""}

\* Characters excluded by [^'\" \n].
ArgStop == {"'", "\"", " ", NL}

RECURSIVE ArgRunEnd(_, _)
\* First position at or after p that holds a character of ['\" \n].
ArgRunEnd(t, p) ==
    IF p > Len(t) \/ t[p] \in ArgStop THEN p
    ELSE ArgRunEnd(t, p + 1)

\* Position of the first character of the argument of a g-th alternative
\* match that starts at p.
ArgStart(p, g) == p + Len(CallNames[g]) + 1

\* flag_regex matches at position p with its g-th alternative.
FlagMatchesAt(t, p, g) ==
    /\ StartsAt(t, p, CallNames[g])
    /\ ArgStart(p, g) - 1 <= Len(t) /\ t[ArgStart(p, g) - 1] \in Quotes
    /\ LET q == ArgRunEnd(t, ArgStart(p, g))
       IN  q > ArgStart(p, g) /\ q <= Len(t) /\ t[q] \in Quotes

\* The alternative that matches at p: the first one that does.
FlagAlt(t, p) ==
    CHOOSE g \in 1..3 : FlagMatchesAt(t, p, g) /\ \A h \in 1..(g - 1) : ~FlagMatchesAt(t, p, h)

\* The tuple of the three groups findall returns for a match at p.
FlagGroups(t, p) ==
    [g \in 1..3 |-> IF g = FlagAlt(t, p)
                    THEN SubSeq(t, ArgStart(p, g), ArgRunEnd(t, ArgStart(p, g)) - 1)
                    ELSE <<>>]

RECURSIVE FlagFindallFrom(_, _)
FlagFindallFrom(t, p) ==
    IF p > Len(t) THEN <<>>
    ELSE IF \E g \in 1..3 : FlagMatchesAt(t, p, g)
         THEN <<FlagGroups(t, p)>>
              \o FlagFindallFrom(t, ArgRunEnd(t, ArgStart(p, FlagAlt(t, p))) + 1)
         ELSE FlagFindallFrom(t, p + 1)

\* flag_regex.findall(file_content)
FlagFindall(t) == FlagFindallFrom(t, 1)

\* next(filter(None, m), None) and the `if flag` test: the flags a file adds.
FileFlags(t) ==
    LET ms == FlagFindall(t)
    IN  {m[CHOOSE g \in 1..3 : m[g] # <<>> /\ \A h \in 1..(g - 1) : m[h] = <<>>] :
            m \in {ms[k] : k \in {k \in 1..Len(ms) : \E g \in 1..3 : ms[k][g] # <<>>}}}

(***************************************************************************)
(* verify: comparison                                                      *)
(***************************************************************************)
\* Mutation: the membership test inverted.
MissingOfInverted(order, cfg) == SelectSeq(order, LAMBDA f : InSeq(f, cfg))

\* missing = [f for f in used_flags if f not in config_flags]
MissingOf(order, cfg) == SelectSeq(order, LAMBDA f : ~InSeq(f, cfg))

\* unused = [f for f in config_flags if f not in used_flags]
UnusedOf(cfg, used) == SelectSeq(cfg, LAMBDA f : f \notin used)

\* sys.exit(0 if success else 1)
ExitCode(s) == IF s = "True" THEN 0 ELSE 1

(***************************************************************************)
(* verify: inputs                                                          *)
(***************************************************************************)
ConfigLines ==
    { <<"a", ":">>,
      <<"b", ":", " ", "1">>,
      <<" ", " ", "a", ":">>,
      <<"a", ".", "b", ":">> }

ConfigTexts == {Join(ls) : ls \in SeqsUpTo(ConfigLines, MaxConfigLines)}

ConfigAlphabet == {"a", "b", ":", " ", ".", NL}

\* is_enabled('a')
T_a == L_is_enabled \o <<"'", "a", "'", ")">>

\* isEnabled("a.b") and, on the next line, xcheck('b')
T_ab == L_isEnabled \o <<"\"", "a", ".", "b", "\"", ")", NL, "x">>
        \o L_check \o <<"'", "b", "'", ")">>

\* check("c") check('a b')
T_c == L_check \o <<"\"", "c", "\"", ")", " ">>
       \o L_check \o <<"'", "a", " ", "b", "'", ")">>

FileCatalogue ==
    { [dir |-> "",     ext |-> ".py", readable |-> TRUE,  text |-> T_a],
      [dir |-> "src",  ext |-> ".ts", readable |-> TRUE,  text |-> T_ab],
      [dir |-> "src",  ext |-> ".py", readable |-> FALSE, text |-> T_c],
      [dir |-> ".git", ext |-> ".py", readable |-> TRUE,  text |-> T_c],
      [dir |-> "src",  ext |-> ".md", readable |-> TRUE,  text |-> T_c] }

Trees == SeqsUpTo(FileCatalogue, MaxFiles)

(***************************************************************************)
(* verify: the command                                                     *)
(***************************************************************************)
VerifyIdle ==
    /\ config_flags = <<>> /\ used_flags = {} /\ file_count = 0 /\ idx = 1
    /\ opened = <<>> /\ missing = <<>> /\ unused = <<>>

AuditIdle ==
    /\ diff_ok = TRUE /\ diff = <<>> /\ lines = <<>> /\ i = 0
    /\ warnings = 0 /\ warned = <<>> /\ summary = [text |-> "none", n |-> 0]

InitVerifyWith(texts, trees) ==
    /\ command = "verify" /\ pc = "start" /\ success = "none" /\ run = 1
    /\ config_exists \in BOOLEAN
    /\ config_readable \in BOOLEAN
    /\ config_exists = FALSE => config_readable = FALSE
    /\ content \in texts
    /\ tree \in trees
    /\ VerifyIdle
    /\ prev_missing = <<>> /\ prev_unused = <<>>
    /\ AuditIdle

InitVerify == InitVerifyWith(ConfigTexts, Trees)

\* Step 1: load the config, or return False.
VerifyLoadConfig ==
    /\ command = "verify" /\ pc = "start"
    /\ IF LoadFails(config_exists, config_readable)
       THEN /\ success' = "False"
            /\ pc' = "done"
            /\ UNCHANGED config_flags
       ELSE /\ config_flags' = ConfigFindall(content)
            /\ pc' = "scan"
            /\ UNCHANGED success
    /\ UNCHANGED <<command, run, config_exists, config_readable, content, tree,
                   used_flags, file_count, idx, opened, missing, unused,
                   prev_missing, prev_unused>>
    /\ UNCHANGED auditVars

\* Step 2: one entry of the walk.  The open() of an included file is not
\* guarded: when it raises, the exception leaves verify_cmd and main.
VerifyScanFile ==
    /\ command = "verify" /\ pc = "scan" /\ idx <= Len(tree)
    /\ LET f == tree[idx]
       IN  IF ~Included(f)
           THEN /\ idx' = idx + 1
                /\ UNCHANGED <<pc, file_count, opened, used_flags>>
           ELSE IF ~f.readable
                THEN /\ file_count' = file_count + 1
                     /\ pc' = "raised"
                     /\ UNCHANGED <<idx, opened, used_flags>>
                ELSE /\ file_count' = file_count + 1
                     /\ opened' = Append(opened, idx)
                     /\ used_flags' = used_flags \cup FileFlags(f.text)
                     /\ idx' = idx + 1
                     /\ UNCHANGED pc
    /\ UNCHANGED <<command, success, run, config_exists, config_readable, content,
                   tree, config_flags, missing, unused, prev_missing, prev_unused>>
    /\ UNCHANGED auditVars

\* Step 3: compare, print and return.  used_flags is a set of strings: the
\* order of its iteration depends on the process's string hash seed.
VerifyCompare ==
    /\ command = "verify" /\ pc = "scan" /\ idx > Len(tree)
    /\ \E order \in Orders(used_flags) :
          /\ missing' = MissingOf(order, config_flags)
          /\ unused' = UnusedOf(config_flags, used_flags)
          /\ success' = IF MissingOf(order, config_flags) = <<>> THEN "True" ELSE "False"
    /\ pc' = "done"
    /\ UNCHANGED <<command, run, config_exists, config_readable, content, tree,
                   config_flags, used_flags, file_count, idx, opened,
                   prev_missing, prev_unused>>
    /\ UNCHANGED auditVars

\* The command is run again on the same, unchanged inputs.
VerifyRerun ==
    /\ command = "verify" /\ pc = "done" /\ run < MaxRuns
    /\ run' = run + 1
    /\ pc' = "start"
    /\ success' = "none"
    /\ prev_missing' = missing
    /\ prev_unused' = unused
    /\ config_flags' = <<>> /\ used_flags' = {} /\ file_count' = 0 /\ idx' = 1
    /\ opened' = <<>> /\ missing' = <<>> /\ unused' = <<>>
    /\ UNCHANGED <<command, config_exists, config_readable, content, tree>>
    /\ UNCHANGED auditVars

NextVerify ==
    \/ VerifyLoadConfig
    \/ VerifyScanFile
    \/ VerifyCompare
    \/ VerifyRerun

SpecVerify == InitVerify /\ [][NextVerify]_vars

\* The same command on every config text up to MaxConfigLen characters.
AllConfigTexts == SeqsUpTo(ConfigAlphabet, MaxConfigLen)

InitConfig ==
    InitVerifyWith(AllConfigTexts, {<<[dir |-> "", ext |-> ".py", readable |-> TRUE, text |-> T_a]>>})

SpecConfig == InitConfig /\ [][NextVerify]_vars

(***************************************************************************)
(* audit: the signature heuristic                                          *)
(***************************************************************************)
Whitespace == {" ", NL, "\t"}

\* The characters of the class \w that the model's texts use.
WordChar == {"a", "b", "p", "x", "f", "u", "n", "c", "t", "i", "o", "1", "_"}

RECURSIVE SpaceRunEnd(_, _)
SpaceRunEnd(s, p) ==
    IF p > Len(s) \/ s[p] \notin Whitespace THEN p
    ELSE SpaceRunEnd(s, p + 1)

RECURSIVE WordRunEnd(_, _)
WordRunEnd(s, p) ==
    IF p > Len(s) \/ s[p] \notin WordChar THEN p
    ELSE WordRunEnd(s, p + 1)

RECURSIVE Strip(_)
\* str.strip()
Strip(s) ==
    IF s = <<>> THEN s
    ELSE IF Head(s) \in Whitespace THEN Strip(Tail(s))
    ELSE IF s[Len(s)] \in Whitespace THEN Strip(SubSeq(s, 1, Len(s) - 1))
    ELSE s

\* s[a:b] for a >= 0 and any b: a negative b counts from the end.
PySlice(s, a, b) ==
    LET e0 == IF b < 0 THEN Len(s) + b ELSE b
        e  == IF e0 < 0 THEN 0 ELSE IF e0 > Len(s) THEN Len(s) ELSE e0
    IN  IF a >= e THEN <<>> ELSE SubSeq(s, a + 1, e)

\* line[line.find('(')+1:line.find(')')].strip()
Params(line) == Strip(PySlice(line, Find(line, "(") + 1, Find(line, ")")))

StartsWith(line, c) == Len(line) >= 1 /\ line[1] = c

L_function == <<"f", "u", "n", "c", "t", "i", "o", "n">>

\* destructive_patterns[0], for marker '-' or '+', found anywhere in the line:
\* marker, "function", \s+, \w+, '(', [^)]*, ')'.
FunctionSig(line, marker) ==
    \E p \in 1..Len(line) :
        /\ StartsAt(line, p, <<marker>> \o L_function)
        /\ LET a == p + 1 + Len(L_function)
               b == SpaceRunEnd(line, a)
               c == WordRunEnd(line, b)
           IN  /\ b > a /\ c > b
               /\ c <= Len(line) /\ line[c] = "("
               /\ \E d \in (c + 1)..Len(line) : line[d] = ")"

\* destructive_patterns[1]: marker, \s+, \w+, '(', [^)]*, ')', \s+, '{'.
MethodSig(line, marker) ==
    \E p \in 1..Len(line) :
        /\ line[p] = marker
        /\ LET b == SpaceRunEnd(line, p + 1)
               c == WordRunEnd(line, b)
           IN  /\ b > p + 1 /\ c > b
               /\ c <= Len(line) /\ line[c] = "("
               /\ \E d \in (c + 1)..Len(line) :
                     /\ line[d] = ")"
                     /\ \A k \in (c + 1)..(d - 1) : line[k] # ")"
                     /\ LET e == SpaceRunEnd(line, d + 1)
                        IN  e > d + 1 /\ e <= Len(line) /\ line[e] = "{"

\* The pair has the shape of one of the destructive_patterns.  The audit
\* loop never consults destructive_patterns.
ShapeMatch(line, next_line) ==
    \/ FunctionSig(line, "-") /\ FunctionSig(next_line, "+")
    \/ MethodSig(line, "-") /\ MethodSig(next_line, "+")

\* Mutation: the test for a default value dropped.
IsDestructiveByLength(old_params, new_params) == Len(new_params) > Len(old_params)

\* len(new_params) > len(old_params) and '=' not in new_params
IsDestructive(old_params, new_params) ==
    Len(new_params) > Len(old_params) /\ "=" \notin Range(new_params)

\* The nested conditions under which the loop body warns.
Warns(line, next_line) ==
    /\ StartsWith(line, "-") /\ StartsWith(next_line, "+")
    /\ "(" \in Range(line) /\ "(" \in Range(next_line)
    /\ IsDestructive(Params(line), Params(next_line))

\* Mutation: warnings make the command fail.
AuditReturnClean(w) == IF w = 0 THEN "True" ELSE "False"

\* return True
AuditReturn(w) == "True"

\* The closing log line.
AuditSummary(w) ==
    IF w = 0 THEN [text |-> "no issues", n |-> 0]
    ELSE [text |-> "issues", n |-> w]

(***************************************************************************)
(* audit: inputs                                                           *)
(***************************************************************************)
\* -function p(a) {
D_fun_old == <<"-">> \o L_function \o <<" ", "p", "(", "a", ")", " ", "{">>

\* +function p(a,b) {
D_fun_new == <<"+">> \o L_function \o <<" ", "p", "(", "a", ",", "b", ")", " ", "{">>

\* +function p(a,b=1) {
D_fun_dflt == <<"+">> \o L_function \o <<" ", "p", "(", "a", ",", "b", "=", "1", ")", " ", "{">>

\* - p(a) {
D_met_old == <<"-", " ", "p", "(", "a", ")", " ", "{">>

\* + p( a ) {
D_met_pad == <<"+", " ", "p", "(", " ", "a", " ", ")", " ", "{">>

\* -x=p(a)
D_call_old == <<"-", "x", "=", "p", "(", "a", ")">>

\* +x=p(a,b)
D_call_new == <<"+", "x", "=", "p", "(", "a", ",", "b", ")">>

\* +p(a,b
D_open == <<"+", "p", "(", "a", ",", "b">>

\* +x=1
D_plain == <<"+", "x", "=", "1">>

DiffLines ==
    {D_fun_old, D_fun_new, D_fun_dflt, D_met_old, D_met_pad,
     D_call_old, D_call_new, D_open, D_plain}

DiffTexts == {Join(ls) : ls \in SeqsUpTo(DiffLines, MaxDiffLines)}

(***************************************************************************)
(* audit: the command                                                      *)
(***************************************************************************)
InitAudit ==
    /\ command = "audit" /\ pc = "start" /\ success = "none" /\ run = 1
    /\ config_exists = FALSE /\ config_readable = FALSE
    /\ content = <<>> /\ tree = <<>>
    /\ VerifyIdle
    /\ prev_missing = <<>> /\ prev_unused = <<>>
    /\ diff_ok \in BOOLEAN
    /\ diff \in (IF diff_ok THEN DiffTexts ELSE {<<>>})
    /\ lines = <<>> /\ i = 0 /\ warnings = 0 /\ warned = <<>>
    /\ summary = [text |-> "none", n |-> 0]

\* The git diff invocation: its output is split into lines, or the command
\* returns False.
AuditRunDiff ==
    /\ command = "audit" /\ pc = "start"
    /\ IF diff_ok
       THEN /\ lines' = Split(diff)
            /\ pc' = "scan"
            /\ UNCHANGED success
       ELSE /\ success' = "False"
            /\ pc' = "done"
            /\ UNCHANGED lines
    /\ UNCHANGED <<command, run, diff_ok, diff, i, warnings, warned, summary>>
    /\ UNCHANGED verifyVars

\* One iteration of `for i in range(len(lines) - 1)`.
AuditScanPair ==
    /\ command = "audit" /\ pc = "scan" /\ i < Len(lines) - 1
    /\ IF Warns(lines[i + 1], lines[i + 2])
       THEN /\ warned' = Append(warned, i)
            /\ warnings' = warnings + 1
       ELSE UNCHANGED <<warned, warnings>>
    /\ i' = i + 1
    /\ UNCHANGED <<command, pc, success, run, diff_ok, diff, lines, summary>>
    /\ UNCHANGED verifyVars

\* After the loop: the summary line and the return.
AuditFinish ==
    /\ command = "audit" /\ pc = "scan" /\ i >= Len(lines) - 1
    /\ summary' = AuditSummary(warnings)
    /\ success' = AuditReturn(warnings)
    /\ pc' = "done"
    /\ UNCHANGED <<command, run, diff_ok, diff, lines, i, warnings, warned>>
    /\ UNCHANGED verifyVars

NextAudit ==
    \/ AuditRunDiff
    \/ AuditScanPair
    \/ AuditFinish

SpecAudit == InitAudit /\ [][NextAudit]_vars

(***************************************************************************)
(* Properties of verify                                                    *)
(***************************************************************************)
ConfigLoaded == config_exists /\ config_readable

VerifyDone == command = "verify" /\ pc = "done"

\* C1: when the config file is readable, verify_cmd returns True (exit code
\* 0) if and only if no flag used in code is absent from the config;
\* declared-but-unused flags never change the result.
C1_SuccessIffNoMissing ==
    (VerifyDone /\ ConfigLoaded) =>
        /\ (success = "True") <=> (used_flags \ Range(config_flags) = {})
        /\ (ExitCode(success) = 0) <=> (used_flags \ Range(config_flags) = {})

\* C1 witness: a run that succeeds although unused flags were reported.
C1_Witness ==
    /\ VerifyDone /\ ConfigLoaded
    /\ success = "True" /\ used_flags # {} /\ unused # <<>>

\* C2: missing is UsedFlagSet minus DeclaredFlagSet and unused is
\* DeclaredFlagSet minus UsedFlagSet, each member reported exactly once (also
\* when the config declares a key on several lines), and no name is in both.
C2_ReportedAsSets ==
    (VerifyDone /\ ConfigLoaded) =>
        /\ Range(missing) = used_flags \ Range(config_flags)
        /\ NoDup(missing)
        /\ Range(unused) = Range(config_flags) \ used_flags
        /\ NoDup(unused)
        /\ Range(missing) \cap Range(unused) = {}

\* The config text has a line that begins with name followed by ':'.
HasEntry(text, name) ==
    \E k \in 1..Len(Split(text)) : StartsAt(Split(text)[k], 1, name \o <<":">>)

\* C3: if every flag name the scanner extracted is present verbatim as a
\* line-initial `name:` entry of the config, verify computes an empty missing
\* set and succeeds.
C3_RoundTrip ==
    (VerifyDone /\ ConfigLoaded /\ \A f \in used_flags : HasEntry(content, f)) =>
        /\ missing = <<>>
        /\ success = "True"

\* C7: if the config file is missing or cannot be read, verify_cmd returns
\* False with no partial output: no source file is scanned and no missing or
\* unused entry is reported.
C7_ConfigFailureAborts ==
    (command = "verify" /\ ~(config_exists /\ config_readable)) =>
        /\ pc \in {"start", "done"}
        /\ pc = "done" => (success = "False" /\ ExitCode(success) = 1)
        /\ file_count = 0 /\ idx = 1 /\ opened = <<>>
        /\ config_flags = <<>> /\ used_flags = {}
        /\ missing = <<>> /\ unused = <<>>

\* C7 witness: the command has returned on an unreadable config although the
\* tree holds a file the scan would have read and flags it would have found.
C7_Witness ==
    /\ VerifyDone /\ config_exists /\ ~config_readable
    /\ content # <<>>
    /\ \E k \in 1..Len(tree) :
          Included(tree[k]) /\ tree[k].readable /\ FileFlags(tree[k].text) # {}

\* The keys of one line: the longest prefix of [a-zA-Z0-9_-] characters, when
\* it is not empty and a ':' follows it.
LineKey(line) ==
    LET n == CHOOSE n \in 0..Len(line) :
                 /\ \A k \in 1..n : line[k] \in NameChar
                 /\ n = Len(line) \/ line[n + 1] \notin NameChar
    IN  IF n >= 1 /\ n < Len(line) /\ line[n + 1] = ":"
        THEN <<SubSeq(line, 1, n)>>
        ELSE <<>>

RECURSIVE KeysOfLines(_)
KeysOfLines(ls) ==
    IF ls = <<>> THEN <<>>
    ELSE LineKey(Head(ls)) \o KeysOfLines(Tail(ls))

\* C8: the declared flags are exactly the [a-zA-Z0-9_-]+ tokens that begin at
\* the first character of a line and are immediately followed by ':'; a key
\* after leading whitespace is never included; an empty config declares
\* nothing, so that missing is the whole used set.
C8_LineInitialKeys ==
    (command = "verify" /\ ConfigLoaded /\ pc \in {"scan", "raised", "done"}) =>
        /\ config_flags = KeysOfLines(Split(content))
        /\ \A j \in 1..Len(config_flags) : HasEntry(content, config_flags[j])
        /\ Len(config_flags) <=
              Cardinality({k \in 1..Len(Split(content)) :
                              /\ Split(content)[k] # <<>>
                              /\ Split(content)[k][1] \in NameChar})
        /\ (content = <<>> /\ pc = "done") =>
              (config_flags = <<>> /\ Range(missing) = used_flags)

\* C8 witness: the config holds an indented `a:`, no line-initial one, and the
\* flag a used in code has been reported missing.
C8_Witness ==
    /\ VerifyDone /\ ConfigLoaded
    /\ \E p \in 2..Len(content) :
          /\ content[p - 1] = " "
          /\ StartsAt(content, p, <<"a", ":">>)
    /\ ~HasEntry(content, <<"a">>)
    /\ <<"a">> \in Range(missing)

\* C9: a failure to open or read a single included source file does not
\* abort the command: the file is skipped, the scan goes on, and verify
\* reaches the comparison and returns a result.
C9_UnreadableFileSkipped ==
    (command = "verify" /\ ConfigLoaded) =>
        /\ pc \in {"start", "scan", "done"}
        /\ pc = "done" => success \in {"True", "False"}

\* C10: two runs of verify on the same unchanged config and source tree print
\* the same missing entries and the same unused entries, in the same order.
C10_SameOutputOnRerun ==
    (VerifyDone /\ ConfigLoaded /\ run >= 2) =>
        /\ missing = prev_missing
        /\ unused = prev_unused

(***************************************************************************)
(* Properties of audit                                                     *)
(***************************************************************************)
AuditDone == command = "audit" /\ pc = "done"

\* The pairs the loop has gone through, by loop index.
Scanned == {k \in 0..(i - 1) : k + 2 <= Len(lines)}

\* C4: an adjacent '-'/'+' pair produces a warning (and increments the
\* counter) if and only if both lines have a signature-like shape and the new
\* parameter text is longer than the old one and holds no '='; in every other
\* case no warning is emitted and the counter is unchanged.
C4_WarnsIffShapeAndGrowth ==
    command = "audit" =>
        /\ warnings = Len(warned)
        /\ \A k \in Scanned :
              InSeq(k, warned) <=>
                  /\ StartsWith(lines[k + 1], "-") /\ StartsWith(lines[k + 2], "+")
                  /\ ShapeMatch(lines[k + 1], lines[k + 2])
                  /\ Len(Params(lines[k + 2])) > Len(Params(lines[k + 1]))
                  /\ "=" \notin Range(Params(lines[k + 2]))

\* C5: no warning is ever emitted for a pair whose added line's parameter
\* text contains '=', however much longer it is than the old parameter text.
C5_NoWarningWithDefault ==
    command = "audit" =>
        \A k \in Scanned :
            "=" \in Range(Params(lines[k + 2])) => ~InSeq(k, warned)

\* C5 witness: a scanned '-'/'+' pair with parentheses whose new parameter
\* text is longer and holds '=', in a run that warned about another pair.
C5_Witness ==
    /\ AuditDone /\ warned # <<>>
    /\ \E k \in Scanned :
          /\ StartsWith(lines[k + 1], "-") /\ StartsWith(lines[k + 2], "+")
          /\ "(" \in Range(lines[k + 1]) /\ "(" \in Range(lines[k + 2])
          /\ Len(Params(lines[k + 2])) > Len(Params(lines[k + 1]))
          /\ "=" \in Range(Params(lines[k + 2]))

\* C6: audit_cmd returns True (exit code 0) whenever the diff invocation
\* succeeded, whatever the warning count, and False only when the invocation
\* failed, and then no line is scanned and no warning emitted; the summary
\* says 'no issues' exactly when the counter is 0 and else gives the counter.
C6_AuditAlwaysSucceeds ==
    AuditDone =>
        /\ diff_ok =>
              /\ success = "True" /\ ExitCode(success) = 0
              /\ i = Len(lines) - 1
              /\ warnings = Len(warned)
              /\ (summary.text = "no issues") <=> (warnings = 0)
              /\ warnings # 0 => (summary.text = "issues" /\ summary.n = warnings)
        /\ ~diff_ok =>
              /\ success = "False" /\ ExitCode(success) = 1
              /\ lines = <<>> /\ i = 0 /\ warned = <<>> /\ warnings = 0
              /\ summary.text = "none"

\* C6 witness: a successful return after two warnings.
C6_Witness ==
    /\ AuditDone /\ diff_ok
    /\ warnings = 2 /\ success = "True" /\ summary.n = 2

====
